---- MODULE Spec2Model ----
(***************************************************************************)
(* Model of timekeep's session-lifecycle engine                            *)
(* (cmd/service/internal/sessions/sessions.go) and of the two bindings     *)
(* that drive it: the Windows service (Execute, service_windows.go) and    *)
(* the Linux daemon (Manage).                                              *)
(*                                                                         *)
(* Threads: the notification deliverers (the process monitor's goroutines  *)
(* calling CreateSession / EndSession), the session validator goroutine    *)
(* (ValidateActiveSessions) and the control loop (Execute).  Every access  *)
(* to shared memory or to a repository that the code performs outside      *)
(* sm.Mu is one step; a critical section that only touches memory is one   *)
(* step, since every other writer needs the same lock and the only         *)
(* unlocked readers (the len(t.PIDs) tests at sessions.go:84 and :120)     *)
(* see the PID set either before or after it.  The validator's scan calls  *)
(* the OS probe while it holds the lock, so there the lock and the scan    *)
(* are separate steps.                                                     *)
(***************************************************************************)
EXTENDS Integers, Sequences, FiniteSets, TLC

\* ------------------------------------------------------------ bounds
MaxPid == 2
MaxTime == 3
MaxCreates == 2

\* The strings that serve as program names: sm.Programs is keyed by the
\* string as it is given, so a name and its lower-case form are two keys
Names == {"editor", "browser", "Editor"}
\* the names as the catalog of the main specifications holds them and as the
\* monitor reports them there
Lowercase == {"editor", "browser"}
Pids == 1..MaxPid
Workers == {"w1", "w2"}
Monitor == {"w1"}
Sweeper == "validator"
Control == "control"
Threads == Workers \cup {Sweeper}

\* The clock counts half seconds, so that the truncation to whole seconds
\* of sessions.go:137 is visible.
TicksPerSecond == 2

\* ------------------------------------------------------------ heap
Objs == 1..(Cardinality(Names) + Cardinality(Workers))
NULL == 0
NoRow == 0
ZeroTime == 0
Free == "free"

\* sessions.go:16-22; the zero value of a Tracked with a made PIDs map
ZeroTracked == [Category |-> "", Project |-> "", PIDs |-> {},
                StartAt |-> ZeroTime, LastSeen |-> ZeroTime]

VARIABLES
  Programs,   \* sm.Programs: name -> pointer to a Tracked, NULL when absent
  heap,       \* the Tracked objects
  Mu,         \* sm.Mu: Free or the thread holding it
  clock,      \* time.Now()
  pc,         \* each thread's position
  arg,        \* each thread's processName and pid
  tref,       \* each thread's local t
  tnow,       \* CreateSession's local now
  startTime,  \* MoveSessionToHistory's local startTime
  endTime,    \* MoveSessionToHistory's local endTime
  duration,   \* MoveSessionToHistory's local duration
  programsToClean,
  active,     \* repository: program -> start of its ActiveSession row, or NoRow
  history,    \* repository: sequence of SessionHistory rows
  lifetime,   \* repository: program -> lifetime seconds
  catalog,    \* repository: the names of the Program rows
  config,     \* s.eventCtrl.Config: which integrations are enabled
  svc,        \* the last svc.Status sent or what Manage returned, the
              \* position of Execute or Manage, the build, the calls of
              \* the startup and the shutdown so far, and the status last
              \* sent in answer to an Interrogate
  tasks,      \* the background tasks that are running
  created,    \* history variable: how many CreateSession calls there were
  expect,     \* history variable: PIDs created and not ended or swept since
  probed,     \* history variable: what the running sweep's probes found
  sid         \* history variable: the CreateSession call that opened the
              \* session of each call, ActiveSession row and history row,
              \* which call, if the last one did nothing, that was, and
              \* the program whose entry the last call found, if that
              \* was an EnsureProgram call after the seeding

vars == <<Programs, heap, Mu, clock, pc, arg, tref, tnow, startTime, endTime,
          duration, programsToClean, active, history, lifetime, catalog, config,
          svc, tasks, created, expect, probed, sid>>

move == <<startTime, endTime, duration>>
locals == <<arg, tref, tnow, move>>
repo == <<active, history, lifetime>>
service == <<catalog, config, svc, tasks>>
ghost == <<created, expect, probed, sid>>

NotProbed == [n \in Names |-> "none"]

NoArg == [name |-> "", pid |-> 0]

\* The entry of a program, ZeroTracked standing for an absent one
Entry(n) == IF Programs[n] = NULL THEN ZeroTracked ELSE heap[Programs[n]]
LivePIDs(n) == Entry(n).PIDs

\* Go's garbage collector: an object no map entry and no local points to
\* is gone.  P and tr are the references after the step.
Collect(h, P, tr) ==
  [o \in Objs |->
     IF (\E n \in Names : P[n] = o) \/ (\E th \in Threads : tr[th] = o)
     THEN h[o] ELSE ZeroTracked]

\* &Tracked{...}: the first address nothing points to
Unused(P, o) ==
  /\ \A n \in Names : P[n] # o
  /\ \A th \in Threads : tref[th] # o
NewObj(P) ==
  CHOOSE o \in Objs : Unused(P, o) /\ \A q \in Objs : Unused(P, q) => o <= q

\* ------------------------------------------------------------ service state
NoTasks == [monitor |-> FALSE, heartbeat |-> FALSE, listener |-> FALSE,
            validator |-> FALSE, cancelled |-> FALSE, dbOpen |-> TRUE]

InitManager ==
  /\ Programs = [n \in Names |-> NULL]
  /\ heap = [o \in Objs |-> ZeroTracked]
  /\ Mu = Free
  /\ clock = 1
  /\ pc = [th \in Threads |-> "idle"]
  /\ arg = [th \in Threads |-> NoArg]
  /\ tref = [th \in Threads |-> NULL]
  /\ tnow = [th \in Threads |-> ZeroTime]
  /\ startTime = [th \in Threads |-> ZeroTime]
  /\ endTime = [th \in Threads |-> ZeroTime]
  /\ duration = [th \in Threads |-> 0]
  /\ programsToClean = <<>>
  /\ active = [n \in Names |-> NoRow]
  /\ history = <<>>
  /\ lifetime = [n \in Names |-> 0]
  /\ tasks = NoTasks
  /\ created = 0
  /\ expect = [n \in Names |-> {}]
  /\ probed = NotProbed
  /\ sid = [call |-> [th \in Threads |-> 0], row |-> [n \in Names |-> 0], hist |-> <<>>,
            noop |-> "", ensured |-> ""]

\* service_windows.go:45: Execute has sent StartPending; sessions.go:253-278:
\* Manage has reported nothing
InitService(os) ==
  svc = [state |-> IF os = "linux" THEN "" ELSE "StartPending",
         at |-> "read", seed |-> <<>>, exit |-> 0, os |-> os, calls |-> <<>>,
         reported |-> ""]

\* The service is entered (service_windows.go:32-48) with every program in
\* the catalog and no integration enabled
Init ==
  /\ InitManager
  /\ InitService("windows")
  /\ catalog = Lowercase
  /\ config = [WakaTime |-> FALSE, Wakapi |-> FALSE]

\* ... with any catalog and any configuration
InitAny ==
  /\ InitManager
  /\ InitService("windows")
  /\ catalog \in {{}, Lowercase}
  /\ config \in [WakaTime : BOOLEAN, Wakapi : BOOLEAN]

\* time passes
Tick ==
  /\ clock < MaxTime
  /\ clock' = clock + 1
  /\ UNCHANGED <<Programs, heap, Mu, pc, locals, programsToClean, repo, service, ghost>>

\* ------------------------------------------------------------ EnsureProgram
\* strings.ToLower on the names that occur
ToLower(name) ==
  IF name = "Editor" THEN "editor"
  ELSE IF name = "Browser" THEN "browser"
  ELSE name

\* The category and the project of a Program row (service_windows.go:59-66)
CatalogCategory(name) == IF name = "editor" THEN "dev" ELSE ""
CatalogProject(name) == IF name = "editor" THEN "timekeep" ELSE ""

\* sessions.go:35-55, the map after it
EnsurePrograms(P, name) ==
  IF P[ToLower(name)] = NULL
  THEN [P EXCEPT ![ToLower(name)] = NewObj(P)]
  ELSE P

\* a new entry is made without the category and the project
EnsureHeap_DropsMetadata(P, h, name, category, project) ==
  IF P[ToLower(name)] = NULL
  THEN [h EXCEPT ![NewObj(P)] = ZeroTracked]
  ELSE [h EXCEPT ![P[ToLower(name)]] =
          [@ EXCEPT !.Category = category, !.Project = project]]

\* the entry is made anew, whether the program is in the map or not
EnsureHeap_Resets(P, h, name, category, project) ==
  [h EXCEPT ![IF P[ToLower(name)] = NULL THEN NewObj(P) ELSE P[ToLower(name)]] =
     [ZeroTracked EXCEPT !.Category = category, !.Project = project]]

\* sessions.go:35-55, the objects after it
EnsureHeap(P, h, name, category, project) ==
  IF P[ToLower(name)] = NULL
  THEN [h EXCEPT ![NewObj(P)] =
          [ZeroTracked EXCEPT !.Category = category, !.Project = project]]
  ELSE [h EXCEPT ![P[ToLower(name)]] =
          [@ EXCEPT !.Category = category, !.Project = project]]

\* The categories and the projects a caller passes
Categories == {"", "dev"}
Projects == {"timekeep"}

\* sessions.go:33-55: a call of EnsureProgram by a task that holds sm.Mu for
\* it, as the comment of the function demands
EnsureProgram(name, category, project) ==
  /\ Mu = Free
  /\ Programs' = EnsurePrograms(Programs, name)
  /\ heap' = EnsureHeap(Programs, heap, name, category, project)
  /\ sid' = [sid EXCEPT !.ensured = IF Programs[ToLower(name)] = NULL
                                    THEN "" ELSE ToLower(name)]
  /\ UNCHANGED <<Mu, clock, pc, locals, programsToClean, repo, service,
                 created, expect, probed>>

\* ------------------------------------------------------------ repositories
\* the difference is taken for seconds as it is
DurationSeconds_NotInSeconds(start, end) == end - start

\* sessions.go:137, int64(endTime.Sub(startTime).Seconds())
DurationSeconds(start, end) == (end - start) \div TicksPerSecond

\* sessions.go:139-144, database.AddToSessionHistoryParams
HistoryRow(n, start, end, dur) ==
  [ProgramName |-> n, StartTime |-> start, EndTime |-> end,
   DurationSeconds |-> dur]

\* ------------------------------------------------------------ CreateSession
\* StartAt is stamped for every new PID
AddPid_StampsEveryPid(t, pid, now) ==
  [t EXCEPT !.PIDs = @ \cup {pid}, !.StartAt = now, !.LastSeen = now]

\* sessions.go:74-81, the Tracked after a PID that was not yet recorded
AddPid(t, pid, now) ==
  LET pids == t.PIDs \cup {pid} IN
  [t EXCEPT !.PIDs = pids,
            !.StartAt = IF Cardinality(pids) = 1 THEN now ELSE @,
            !.LastSeen = now]

\* the test for an already recorded PID is left out
CreateSession_NoDuplicateCheck(w, n, pid) ==
  /\ tasks.monitor
  /\ pc[w] = "idle"
  /\ Mu = Free
  /\ created < MaxCreates
  /\ created' = created + 1
  /\ LET o == IF Programs[n] = NULL THEN NewObj(Programs) ELSE Programs[n]
         t == Entry(n)
     IN /\ Programs' = [Programs EXCEPT ![n] = o]
        /\ heap' = [heap EXCEPT ![o] = AddPid(t, pid, clock)]
        /\ pc' = [pc EXCEPT ![w] = "cs_len"]
        /\ arg' = [arg EXCEPT ![w] = [name |-> n, pid |-> pid]]
        /\ tref' = [tref EXCEPT ![w] = o]
        /\ tnow' = [tnow EXCEPT ![w] = clock]
  /\ expect' = [expect EXCEPT ![n] = @ \cup {pid}]
  /\ sid' = [sid EXCEPT !.call[w] = IF pid \in Entry(n).PIDs THEN 0 ELSE created + 1,
                        !.noop = IF pid \in Entry(n).PIDs THEN "CreateSession" ELSE "",
                        !.ensured = ""]
  /\ UNCHANGED <<Mu, clock, move, programsToClean, repo, service, probed>>

\* sessions.go:62-82: what CreateSession does under the lock, and the
\* Unlock: the call returns when the PID is recorded already
CreateSessionSection(w, n, pid) ==
  /\ created' = created + 1
  /\ LET o == IF Programs[n] = NULL THEN NewObj(Programs) ELSE Programs[n]
         t == Entry(n)
     IN /\ Programs' = [Programs EXCEPT ![n] = o]
        /\ IF pid \in t.PIDs
           THEN /\ heap' = [heap EXCEPT ![o] = [t EXCEPT !.LastSeen = clock]]
                /\ pc' = [pc EXCEPT ![w] = "idle"]
                /\ arg' = [arg EXCEPT ![w] = NoArg]
                /\ UNCHANGED <<tref, tnow>>
           ELSE /\ heap' = [heap EXCEPT ![o] = AddPid(t, pid, clock)]
                /\ pc' = [pc EXCEPT ![w] = "cs_len"]
                /\ arg' = [arg EXCEPT ![w] = [name |-> n, pid |-> pid]]
                /\ tref' = [tref EXCEPT ![w] = o]
                /\ tnow' = [tnow EXCEPT ![w] = clock]
  /\ expect' = [expect EXCEPT ![n] = @ \cup {pid}]
  /\ sid' = [sid EXCEPT !.call[w] = IF pid \in Entry(n).PIDs THEN 0 ELSE created + 1,
                        !.noop = IF pid \in Entry(n).PIDs THEN "CreateSession" ELSE "",
                        !.ensured = ""]
  /\ Mu' = Free
  /\ UNCHANGED <<clock, move, programsToClean, repo, service, probed>>

\* sessions.go:60-82, the critical section
CreateSession(w, n, pid) ==
  /\ tasks.monitor
  /\ pc[w] = "idle"
  /\ Mu = Free
  /\ created < MaxCreates
  /\ CreateSessionSection(w, n, pid)

\* sessions.go:60: the Lock of CreateSession as a step of its own
CreateSessionLock(w, n, pid) ==
  /\ tasks.monitor
  /\ pc[w] = "idle"
  /\ Mu = Free
  /\ created < MaxCreates
  /\ Mu' = w
  /\ pc' = [pc EXCEPT ![w] = "cs_held"]
  /\ arg' = [arg EXCEPT ![w] = [name |-> n, pid |-> pid]]
  /\ UNCHANGED <<Programs, heap, clock, tref, tnow, move, programsToClean, repo,
                 service, ghost>>

\* sessions.go:62-82 after that Lock
CreateSessionUnlock(w) ==
  /\ pc[w] = "cs_held"
  /\ Mu = w
  /\ CreateSessionSection(w, arg[w].name, arg[w].pid)

\* sessions.go:84, len(t.PIDs) == 1 read after the unlock
CreateSessionLen(w) ==
  /\ pc[w] = "cs_len"
  /\ IF Cardinality(heap[tref[w]].PIDs) = 1
     THEN /\ pc' = [pc EXCEPT ![w] = "cs_db"]
          /\ UNCHANGED <<arg, tnow>>
     ELSE /\ pc' = [pc EXCEPT ![w] = "idle"]
          /\ arg' = [arg EXCEPT ![w] = NoArg]
          /\ tnow' = [tnow EXCEPT ![w] = ZeroTime]
  /\ sid' = [sid EXCEPT !.call[w] = IF pc'[w] = "idle" THEN 0 ELSE @]
  /\ tref' = [tref EXCEPT ![w] = NULL]
  /\ heap' = Collect(heap, Programs, tref')
  /\ UNCHANGED <<Programs, Mu, clock, move, programsToClean, repo, service,
                 created, expect, probed>>

\* a.CreateActiveSession when it succeeds: the row is inserted; on a
\* program that already has a row the insert replaces it or leaves it
CreateActiveSessionModes(n) ==
  IF active[n] = NoRow THEN {"insert"} ELSE {"replace", "keep"}

\* a failed write takes the PID out of the set again
CreateSessionDb_RollsBack(w, oks) ==
  /\ pc[w] = "cs_db"
  /\ \E ok \in oks :
       \E mode \in CreateActiveSessionModes(arg[w].name) :
         IF ok /\ mode # "keep"
         THEN /\ active' = [active EXCEPT ![arg[w].name] = tnow[w]]
              /\ sid' = [sid EXCEPT !.row[arg[w].name] = sid.call[w], !.call[w] = 0]
              /\ UNCHANGED heap
         ELSE /\ UNCHANGED active
              /\ sid' = [sid EXCEPT !.call[w] = 0]
              /\ heap' = [heap EXCEPT ![Programs[arg[w].name]].PIDs = @ \ {arg[w].pid}]
  /\ pc' = [pc EXCEPT ![w] = "idle"]
  /\ arg' = [arg EXCEPT ![w] = NoArg]
  /\ tnow' = [tnow EXCEPT ![w] = ZeroTime]
  /\ UNCHANGED <<Programs, Mu, clock, tref, move,
                 programsToClean, history, lifetime, service, created, expect, probed>>

\* sessions.go:85-90; oks: whether the repository call may succeed, may fail
CreateSessionDb(w, oks) ==
  /\ pc[w] = "cs_db"
  /\ \E ok \in oks :
       \E mode \in CreateActiveSessionModes(arg[w].name) :
         IF ok /\ mode # "keep"
         THEN /\ active' = [active EXCEPT ![arg[w].name] = tnow[w]]
              /\ sid' = [sid EXCEPT !.row[arg[w].name] = sid.call[w], !.call[w] = 0]
         ELSE /\ UNCHANGED active
              /\ sid' = [sid EXCEPT !.call[w] = 0]
  /\ pc' = [pc EXCEPT ![w] = "idle"]
  /\ arg' = [arg EXCEPT ![w] = NoArg]
  /\ tnow' = [tnow EXCEPT ![w] = ZeroTime]
  /\ UNCHANGED <<Programs, heap, Mu, clock, tref, move,
                 programsToClean, history, lifetime, service, created, expect, probed>>

\* ------------------------------------------------------------ EndSession
\* the delete is forgotten
RemovePid_KeepsPid(t, pid, now) ==
  [t EXCEPT !.LastSeen = now]

\* sessions.go:114-117
RemovePid(t, pid, now) ==
  [t EXCEPT !.PIDs = @ \ {pid}, !.LastSeen = now]

\* the test for a PID that is not recorded is left out
EndSession_IgnoresMissingPid(w, n, pid) ==
  /\ tasks.monitor
  /\ pc[w] = "idle"
  /\ Mu = Free
  /\ IF Programs[n] = NULL
     THEN UNCHANGED <<heap, pc, arg, tref>>
     ELSE /\ heap' = [heap EXCEPT ![Programs[n]] = RemovePid(@, pid, clock)]
          /\ pc' = [pc EXCEPT ![w] = "es_len"]
          /\ arg' = [arg EXCEPT ![w] = [name |-> n, pid |-> pid]]
          /\ tref' = [tref EXCEPT ![w] = Programs[n]]
  /\ expect' = [expect EXCEPT ![n] = @ \ {pid}]
  /\ sid' = [sid EXCEPT !.noop = IF Programs[n] = NULL \/ pid \notin Entry(n).PIDs
                                 THEN "EndSession" ELSE "",
                        !.ensured = ""]
  /\ UNCHANGED <<Programs, Mu, clock, tnow, move, programsToClean,
                 repo, service, created, probed>>

\* the Unlock of the two early returns is left out
EndSessionSection_ReturnsLocked(w, n, pid) ==
  /\ IF Programs[n] = NULL \/ pid \notin Entry(n).PIDs
     THEN /\ pc' = [pc EXCEPT ![w] = "idle"]
          /\ arg' = [arg EXCEPT ![w] = NoArg]
          /\ Mu' = Mu
          /\ UNCHANGED <<heap, tref>>
     ELSE /\ heap' = [heap EXCEPT ![Programs[n]] = RemovePid(@, pid, clock)]
          /\ pc' = [pc EXCEPT ![w] = "es_len"]
          /\ arg' = [arg EXCEPT ![w] = [name |-> n, pid |-> pid]]
          /\ tref' = [tref EXCEPT ![w] = Programs[n]]
          /\ Mu' = Free
  /\ expect' = [expect EXCEPT ![n] = @ \ {pid}]
  /\ sid' = [sid EXCEPT !.noop = IF Programs[n] = NULL \/ pid \notin Entry(n).PIDs
                                 THEN "EndSession" ELSE "",
                        !.ensured = ""]
  /\ UNCHANGED <<Programs, clock, tnow, move, programsToClean,
                 repo, service, created, probed>>

\* sessions.go:101-118: what EndSession does under the lock, and the
\* Unlock: the call returns when there is no entry or the PID is not in it
EndSessionSection(w, n, pid) ==
  /\ IF Programs[n] = NULL \/ pid \notin Entry(n).PIDs
     THEN /\ pc' = [pc EXCEPT ![w] = "idle"]
          /\ arg' = [arg EXCEPT ![w] = NoArg]
          /\ UNCHANGED <<heap, tref>>
     ELSE /\ heap' = [heap EXCEPT ![Programs[n]] = RemovePid(@, pid, clock)]
          /\ pc' = [pc EXCEPT ![w] = "es_len"]
          /\ arg' = [arg EXCEPT ![w] = [name |-> n, pid |-> pid]]
          /\ tref' = [tref EXCEPT ![w] = Programs[n]]
  /\ expect' = [expect EXCEPT ![n] = @ \ {pid}]
  /\ sid' = [sid EXCEPT !.noop = IF Programs[n] = NULL \/ pid \notin Entry(n).PIDs
                                 THEN "EndSession" ELSE "",
                        !.ensured = ""]
  /\ Mu' = Free
  /\ UNCHANGED <<Programs, clock, tnow, move, programsToClean,
                 repo, service, created, probed>>

\* sessions.go:99-118, the critical section
EndSession(w, n, pid) ==
  /\ tasks.monitor
  /\ pc[w] = "idle"
  /\ Mu = Free
  /\ EndSessionSection(w, n, pid)

\* sessions.go:99: the Lock of EndSession as a step of its own
EndSessionLock(w, n, pid) ==
  /\ tasks.monitor
  /\ pc[w] = "idle"
  /\ Mu = Free
  /\ Mu' = w
  /\ pc' = [pc EXCEPT ![w] = "es_held"]
  /\ arg' = [arg EXCEPT ![w] = [name |-> n, pid |-> pid]]
  /\ UNCHANGED <<Programs, heap, clock, tref, tnow, move, programsToClean, repo,
                 service, ghost>>

\* sessions.go:101-118 after that Lock
EndSessionUnlock(w) ==
  /\ pc[w] = "es_held"
  /\ Mu = w
  /\ EndSessionSection(w, arg[w].name, arg[w].pid)

\* the commit does not wait for the set to be empty
EndSessionLen_AlwaysCommits(w) ==
  /\ pc[w] = "es_len"
  /\ pc' = [pc EXCEPT ![w] = "mv_get"]
  /\ tref' = [tref EXCEPT ![w] = NULL]
  /\ heap' = Collect(heap, Programs, tref')
  /\ UNCHANGED <<Programs, Mu, clock, arg, tnow, move, programsToClean,
                 repo, service, ghost>>

\* sessions.go:120, len(t.PIDs) == 0 read after the unlock
EndSessionLen(w) ==
  /\ pc[w] = "es_len"
  /\ IF Cardinality(heap[tref[w]].PIDs) = 0
     THEN /\ pc' = [pc EXCEPT ![w] = "mv_get"]
          /\ UNCHANGED arg
     ELSE /\ pc' = [pc EXCEPT ![w] = "idle"]
          /\ arg' = [arg EXCEPT ![w] = NoArg]
  /\ tref' = [tref EXCEPT ![w] = NULL]
  /\ heap' = Collect(heap, Programs, tref')
  /\ UNCHANGED <<Programs, Mu, clock, tnow, move, programsToClean,
                 repo, service, ghost>>

\* ------------------------------------------------------------ MoveSessionToHistory
\* MoveSessionToHistory returns: both callers delete the map entry next
\* (sessions.go:122-125 and :198-201)
Return(th) == [pc EXCEPT ![th] = "del"]

\* the error of a.GetActiveSession is not looked at
GetActiveSession_IgnoresError(th, oks) ==
  /\ pc[th] = "mv_get"
  /\ startTime' = [startTime EXCEPT ![th] = active[arg[th].name]]
  /\ endTime' = [endTime EXCEPT ![th] = clock]
  /\ duration' = [duration EXCEPT ![th] =
                    DurationSeconds(active[arg[th].name], clock)]
  /\ pc' = [pc EXCEPT ![th] = "mv_add"]
  /\ sid' = [sid EXCEPT !.call[th] = sid.row[arg[th].name]]
  /\ UNCHANGED <<Programs, heap, Mu, clock, arg, tref, tnow, programsToClean,
                 repo, service, created, expect, probed>>

\* sessions.go:131-137: a.GetActiveSession, endTime := time.Now(), duration
GetActiveSession(th, oks) ==
  /\ pc[th] = "mv_get"
  /\ \E ok \in oks :
       IF ok /\ active[arg[th].name] # NoRow
       THEN /\ startTime' = [startTime EXCEPT ![th] = active[arg[th].name]]
            /\ endTime' = [endTime EXCEPT ![th] = clock]
            /\ duration' = [duration EXCEPT ![th] =
                              DurationSeconds(active[arg[th].name], clock)]
            /\ pc' = [pc EXCEPT ![th] = "mv_add"]
            /\ sid' = [sid EXCEPT !.call[th] = sid.row[arg[th].name]]
       ELSE /\ pc' = Return(th)
            /\ UNCHANGED <<move, sid>>
  /\ UNCHANGED <<Programs, heap, Mu, clock, arg, tref, tnow, programsToClean,
                 repo, service, created, expect, probed>>

\* the commit goes on to the lifetime after a failed insert
AddToSessionHistory_GoesOn(th, oks) ==
  /\ pc[th] = "mv_add"
  /\ \E ok \in oks :
       IF ok
       THEN /\ history' = Append(history,
                            HistoryRow(arg[th].name, startTime[th], endTime[th],
                                       duration[th]))
            /\ sid' = [sid EXCEPT !.hist = Append(@, sid.call[th]), !.call[th] = 0]
       ELSE /\ sid' = [sid EXCEPT !.call[th] = 0]
            /\ UNCHANGED history
  /\ pc' = [pc EXCEPT ![th] = "mv_upd"]
  /\ startTime' = [startTime EXCEPT ![th] = ZeroTime]
  /\ endTime' = [endTime EXCEPT ![th] = ZeroTime]
  /\ UNCHANGED <<Programs, heap, Mu, clock, arg, tref, tnow, programsToClean,
                 duration, active, lifetime, service, created, expect, probed>>

\* sessions.go:139-149: h.AddToSessionHistory; startTime and endTime are
\* not read after it
AddToSessionHistory(th, oks) ==
  /\ pc[th] = "mv_add"
  /\ \E ok \in oks :
       IF ok
       THEN /\ history' = Append(history,
                            HistoryRow(arg[th].name, startTime[th], endTime[th],
                                       duration[th]))
            /\ pc' = [pc EXCEPT ![th] = "mv_upd"]
            /\ sid' = [sid EXCEPT !.hist = Append(@, sid.call[th]), !.call[th] = 0]
            /\ UNCHANGED duration
       ELSE /\ pc' = Return(th)
            /\ duration' = [duration EXCEPT ![th] = 0]
            /\ sid' = [sid EXCEPT !.call[th] = 0]
            /\ UNCHANGED history
  /\ startTime' = [startTime EXCEPT ![th] = ZeroTime]
  /\ endTime' = [endTime EXCEPT ![th] = ZeroTime]
  /\ UNCHANGED <<Programs, heap, Mu, clock, arg, tref, tnow, programsToClean,
                 active, lifetime, service, created, expect, probed>>

\* the duration is computed again at the time of the update
UpdateLifetime_Recomputes(th, oks) ==
  /\ pc[th] = "mv_upd"
  /\ \E ok \in oks :
       IF ok
       THEN lifetime' = [lifetime EXCEPT ![arg[th].name] =
                           @ + DurationSeconds(active[arg[th].name], clock)]
       ELSE UNCHANGED lifetime
  /\ pc' = [pc EXCEPT ![th] = "mv_rm"]
  /\ duration' = [duration EXCEPT ![th] = 0]
  /\ UNCHANGED <<Programs, heap, Mu, clock, arg, tref, tnow, startTime, endTime,
                 programsToClean, active, history, service, ghost>>

\* sessions.go:151-157: pr.UpdateLifetime adds the duration, which is not
\* read after it but by the log line
UpdateLifetime(th, oks) ==
  /\ pc[th] = "mv_upd"
  /\ \E ok \in oks :
       IF ok
       THEN lifetime' = [lifetime EXCEPT ![arg[th].name] = @ + duration[th]]
       ELSE UNCHANGED lifetime
  /\ pc' = [pc EXCEPT ![th] = "mv_rm"]
  /\ duration' = [duration EXCEPT ![th] = 0]
  /\ UNCHANGED <<Programs, heap, Mu, clock, arg, tref, tnow, startTime, endTime,
                 programsToClean, active, history, service, ghost>>

\* sessions.go:159-164: a.RemoveActiveSession
RemoveActiveSession(th, oks) ==
  /\ pc[th] = "mv_rm"
  /\ \E ok \in oks :
       IF ok
       THEN /\ active' = [active EXCEPT ![arg[th].name] = NoRow]
            /\ sid' = [sid EXCEPT !.row[arg[th].name] = 0]
       ELSE UNCHANGED <<active, sid>>
  /\ pc' = Return(th)
  /\ UNCHANGED <<Programs, heap, Mu, clock, locals, programsToClean,
                 history, lifetime, service, created, expect, probed>>

\* the entry is emptied and left in the map
DeleteEntry_KeepsEntry(th) ==
  /\ pc[th] = "del"
  /\ Mu = Free
  /\ heap' = [heap EXCEPT ![Programs[arg[th].name]].PIDs = {}]
  /\ pc' = [pc EXCEPT ![th] = IF th = Sweeper /\ programsToClean # <<>>
                              THEN "mv_get" ELSE "idle"]
  /\ arg' = [arg EXCEPT ![th] = IF th = Sweeper /\ programsToClean # <<>>
                                THEN [name |-> Head(programsToClean), pid |-> 0]
                                ELSE NoArg]
  /\ programsToClean' = IF th = Sweeper /\ programsToClean # <<>>
                        THEN Tail(programsToClean) ELSE programsToClean
  /\ probed' = IF th = Sweeper
               THEN [n \in Names |->
                       IF n = arg[th].name \/ (programsToClean = <<>> /\ probed[n] = "alive")
                       THEN "none" ELSE probed[n]]
               ELSE probed
  /\ UNCHANGED <<Programs, Mu, clock, tref, tnow, move, repo, service, created,
                 expect, sid>>

\* sessions.go:124-125 and :200-201: delete(sm.Programs, name), Unlock;
\* EndSession then returns, the validator goes on with its loop
DeleteEntrySection(th) ==
  /\ Programs' = [Programs EXCEPT ![arg[th].name] = NULL]
  /\ heap' = Collect(heap, Programs', tref)
  /\ IF th = Sweeper /\ programsToClean # <<>>
     THEN /\ pc' = [pc EXCEPT ![th] = "mv_get"]
          /\ arg' = [arg EXCEPT ![th] = [name |-> Head(programsToClean), pid |-> 0]]
          /\ programsToClean' = Tail(programsToClean)
     ELSE /\ pc' = [pc EXCEPT ![th] = "idle"]
          /\ arg' = [arg EXCEPT ![th] = NoArg]
          /\ UNCHANGED programsToClean
  /\ probed' = IF th = Sweeper
               THEN [n \in Names |->
                       IF n = arg[th].name \/ (programsToClean = <<>> /\ probed[n] = "alive")
                       THEN "none" ELSE probed[n]]
               ELSE probed
  /\ Mu' = Free
  /\ UNCHANGED <<clock, tref, tnow, move, repo, service, created, expect, sid>>

\* sessions.go:123-125 and :199-201: Lock, delete(sm.Programs, name), Unlock
DeleteEntry(th) ==
  /\ pc[th] = "del"
  /\ Mu = Free
  /\ DeleteEntrySection(th)

\* sessions.go:123 and :199: the Lock before the delete as a step of its own
DeleteLock(th) ==
  /\ pc[th] = "del"
  /\ Mu = Free
  /\ Mu' = th
  /\ pc' = [pc EXCEPT ![th] = "del_held"]
  /\ UNCHANGED <<Programs, heap, clock, locals, programsToClean, repo, service, ghost>>

\* sessions.go:124-125 and :200-201 after that Lock
DeleteUnlock(th) ==
  /\ pc[th] = "del_held"
  /\ Mu = th
  /\ DeleteEntrySection(th)

\* ------------------------------------------------------------ ValidateActiveSessions
\* What Linux answers to kill(pid, 0)
LinuxAnswers == {"nil", "ESRCH", "EPERM"}

\* sessions_linux.go:11-29
isProcessRunningLinux(answer) ==
  IF answer = "nil" THEN TRUE
  ELSE IF answer = "ESRCH" THEN FALSE
  ELSE TRUE

\* What Windows answers to OpenProcess and, with a handle, to
\* GetExitCodeProcess: no process of that id, access denied, the exit code
\* STILL_ACTIVE (259), another exit code, an error of GetExitCodeProcess
WindowsAnswers == {"ERROR_INVALID_PARAMETER", "ERROR_ACCESS_DENIED",
                   "STILL_ACTIVE", "EXITED", "GetExitCodeProcess error"}

\* sessions_windows.go:7-29
isProcessRunningWindows(answer) ==
  IF answer \in {"ERROR_INVALID_PARAMETER", "ERROR_ACCESS_DENIED"} THEN FALSE
  ELSE IF answer = "GetExitCodeProcess error" THEN FALSE
  ELSE answer = "STILL_ACTIVE"

\* What the OS answers to os.FindProcess and, with a process, to
\* proc.Signal(0): FindProcess finds no process or is denied, Signal
\* returns nil, reports the process finished, or is not permitted
UntaggedAnswers == {"FindProcess not found", "FindProcess denied",
                    "Signal nil", "Signal finished", "Signal not permitted"}

\* sessions.go:206-220
isProcessRunningUntagged(answer) ==
  IF answer \in {"FindProcess not found", "FindProcess denied"} THEN FALSE
  ELSE answer = "Signal nil"

\* What the OS of the build answers to the probe of a PID
OsAnswers ==
  IF svc.os = "linux" THEN LinuxAnswers
  ELSE IF svc.os = "windows" THEN WindowsAnswers
  ELSE UntaggedAnswers

\* sessions.go:181, isProcessRunning(pid): the function the build links
isProcessRunning(answer) ==
  IF svc.os = "linux" THEN isProcessRunningLinux(answer)
  ELSE IF svc.os = "windows" THEN isProcessRunningWindows(answer)
  ELSE isProcessRunningUntagged(answer)

\* the test of the probe is inverted
allPIDsGone_Inverted(pids, answer) == \A pid \in pids : isProcessRunning(answer[pid])

\* one PID that is gone is enough
allPIDsGone_AnyGone(pids, answer) == \E pid \in pids : ~isProcessRunning(answer[pid])

\* sessions.go:179-185
allPIDsGone(pids, answer) == \A pid \in pids : ~isProcessRunning(answer[pid])

\* sessions.go:173-192: the programs the range loop marks, given what the
\* OS answers for every PID
Marked(answer) ==
  {n \in Names : /\ Programs[n] # NULL
                 /\ Cardinality(heap[Programs[n]].PIDs) # 0
                 /\ allPIDsGone(heap[Programs[n]].PIDs, answer)}

\* Go ranges over a map in an unspecified order
Orders(S) ==
  {q \in UNION {[1..k -> S] : k \in 0..Cardinality(S)} :
     /\ Len(q) = Cardinality(S)
     /\ \A i, j \in 1..Len(q) : i # j => q[i] # q[j]}

\* service_windows.go:134-141: the ticker fires and the context is not
\* done; sessions.go:170: Lock
ValidateLock ==
  /\ tasks.validator
  /\ ~tasks.cancelled
  /\ pc[Sweeper] = "idle"
  /\ Mu = Free
  /\ Mu' = Sweeper
  /\ pc' = [pc EXCEPT ![Sweeper] = "vs_scan"]
  /\ UNCHANGED <<Programs, heap, clock, locals, programsToClean, repo, service, ghost>>

\* the validator goes on with its loop although the context is done
ValidatorReturn_Loops ==
  /\ pc[Sweeper] = "idle"
  /\ tasks.cancelled
  /\ \E i \in 1..Len(svc.calls) : svc.calls[i] = "startSessionValidator"
  /\ Mu = Free
  /\ Mu' = Sweeper
  /\ pc' = [pc EXCEPT ![Sweeper] = "vs_scan"]
  /\ UNCHANGED <<Programs, heap, clock, locals, programsToClean, repo, service, ghost>>

\* service_windows.go:134-138 and sessions.go:325-329: the validator, which
\* startSessionValidator has started, is at its select, the context is done
\* and the case of ctx.Done() is taken: the goroutine returns
ValidatorReturn ==
  /\ pc[Sweeper] = "idle"
  /\ tasks.cancelled
  /\ \E i \in 1..Len(svc.calls) : svc.calls[i] = "startSessionValidator"
  /\ pc' = [pc EXCEPT ![Sweeper] = "returned"]
  /\ UNCHANGED <<Programs, heap, Mu, clock, locals, programsToClean, repo, service, ghost>>

\* What the probes of a sweep found for each program with live PIDs
Probed(answer) ==
  [n \in Names |->
     IF LivePIDs(n) = {} THEN "none"
     ELSE IF \E pid \in LivePIDs(n) : isProcessRunning(answer[pid]) THEN "alive"
     ELSE "gone"]

\* the Unlock after the scan is left out
ValidateScan_KeepsLock ==
  /\ pc[Sweeper] = "vs_scan"
  /\ \E answer \in [Pids -> OsAnswers] :
       /\ \E q \in Orders(Marked(answer)) :
            IF q = <<>>
            THEN /\ pc' = [pc EXCEPT ![Sweeper] = "idle"]
                 /\ probed' = [n \in Names |->
                                 IF Probed(answer)[n] = "gone" THEN "gone" ELSE "none"]
                 /\ UNCHANGED <<arg, programsToClean>>
            ELSE /\ pc' = [pc EXCEPT ![Sweeper] = "mv_get"]
                 /\ arg' = [arg EXCEPT ![Sweeper] = [name |-> Head(q), pid |-> 0]]
                 /\ programsToClean' = Tail(q)
                 /\ probed' = Probed(answer)
       /\ expect' = [n \in Names |->
                       IF Probed(answer)[n] = "gone" THEN expect[n] \ LivePIDs(n)
                       ELSE expect[n]]
  /\ Mu' = Mu
  /\ UNCHANGED <<Programs, heap, clock, tref, tnow, move, repo, service, created, sid>>

\* sessions.go:171-197: the scan under the lock, the OS answering the probe
\* of each PID with answer[pid], Unlock, and the first program to clean
ValidateScanWith(answer) ==
  /\ pc[Sweeper] = "vs_scan"
  /\ \E q \in Orders(Marked(answer)) :
       IF q = <<>>
       THEN /\ pc' = [pc EXCEPT ![Sweeper] = "idle"]
            /\ probed' = [n \in Names |->
                            IF Probed(answer)[n] = "gone" THEN "gone" ELSE "none"]
            /\ UNCHANGED <<arg, programsToClean>>
       ELSE /\ pc' = [pc EXCEPT ![Sweeper] = "mv_get"]
            /\ arg' = [arg EXCEPT ![Sweeper] = [name |-> Head(q), pid |-> 0]]
            /\ programsToClean' = Tail(q)
            /\ probed' = Probed(answer)
  /\ expect' = [n \in Names |->
                  IF Probed(answer)[n] = "gone" THEN expect[n] \ LivePIDs(n)
                  ELSE expect[n]]
  /\ Mu' = Free
  /\ UNCHANGED <<Programs, heap, clock, tref, tnow, move, repo, service, created, sid>>

\* sessions.go:171-197 with whatever the OS answers
ValidateScan ==
  \E answer \in [Pids -> OsAnswers] : ValidateScanWith(answer)

\* ------------------------------------------------------------ Execute
\* the error of the read is logged and Execute goes on with no programs
GetAllPrograms_IgnoresError(oks) ==
  /\ svc.os # "linux"
  /\ svc.at = "read"
  /\ \E ok \in oks :
       svc' = [svc EXCEPT !.at = "seed",
                          !.seed = IF ok /\ "editor" \in catalog
                                   THEN <<"editor", "browser">> ELSE <<>>,
                          !.calls = Append(@, "GetAllPrograms")]
  /\ UNCHANGED <<Programs, heap, Mu, clock, pc, locals, programsToClean, repo,
                 catalog, config, tasks, ghost>>

\* service_windows.go:50-55: s.prRepo.GetAllPrograms
GetAllPrograms(oks) ==
  /\ svc.os # "linux"
  /\ svc.at = "read"
  /\ \E ok \in oks :
       IF ok
       THEN svc' = [svc EXCEPT !.at = "seed",
                               !.seed = IF "editor" \in catalog
                                        THEN <<"editor", "browser">> ELSE <<>>,
                               !.calls = Append(@, "GetAllPrograms")]
       ELSE svc' = [svc EXCEPT !.state = "Stopped", !.at = "exit", !.exit = 1,
                               !.calls = Append(@, "GetAllPrograms")]
  /\ UNCHANGED <<Programs, heap, Mu, clock, pc, locals, programsToClean, repo,
                 catalog, config, tasks, ghost>>

\* service_windows.go:58-67: one iteration up to s.sessions.Mu.Lock()
SeedLock ==
  /\ svc.os # "linux"
  /\ svc.at = "seed"
  /\ svc.seed # <<>>
  /\ Mu = Free
  /\ Mu' = Control
  /\ svc' = [svc EXCEPT !.at = "ensure", !.calls = Append(@, "Mu.Lock")]
  /\ UNCHANGED <<Programs, heap, clock, pc, locals, programsToClean, repo, catalog,
                 config, tasks, ghost>>

\* service_windows.go:68-72: EnsureProgram under the lock, Unlock
SeedProgram ==
  /\ svc.at = "ensure"
  /\ Programs' = EnsurePrograms(Programs, Head(svc.seed))
  /\ heap' = EnsureHeap(Programs, heap, Head(svc.seed),
                        CatalogCategory(Head(svc.seed)), CatalogProject(Head(svc.seed)))
  /\ Mu' = Free
  /\ svc' = [svc EXCEPT !.at = "seed", !.seed = Tail(@),
                        !.calls = @ \o <<"EnsureProgram", "Mu.Unlock">>]
  /\ UNCHANGED <<clock, pc, locals, programsToClean, repo, catalog, config,
                 tasks, ghost>>

\* service_windows.go:74-85, the calls that start the tasks: the first pass
\* of the monitor and the monitor when there are programs, the heartbeats
\* when an integration is enabled, the listener, the validator
ExecuteStarts(programs, cfg) ==
  (IF programs # {} THEN <<"StartPreMonitor", "StartMonitor">> ELSE <<>>)
    \o (IF cfg.WakaTime \/ cfg.Wakapi THEN <<"StartHeartbeats">> ELSE <<>>)
    \o <<"Listen", "startSessionValidator">>

\* service_windows.go:56 and :74-87: the tasks are started and the Running
\* status is sent
StartTasks ==
  /\ svc.os # "linux"
  /\ svc.at = "seed"
  /\ svc.seed = <<>>
  /\ tasks' = [tasks EXCEPT !.monitor = (catalog # {}),
                            !.heartbeat = (config.WakaTime \/ config.Wakapi),
                            !.listener = TRUE,
                            !.validator = TRUE]
  /\ svc' = [svc EXCEPT !.state = "Running", !.at = "loop",
                        !.calls = @ \o ExecuteStarts(catalog, config)]
  /\ UNCHANGED <<Programs, heap, Mu, clock, pc, locals, programsToClean, repo,
                 catalog, config, ghost>>

\* service_windows.go:93: a request of the control manager as Execute
\* receives it; the svc package sets CurrentStatus to the status it was
\* sent last
ChangeRequest(cmd) == [Cmd |-> cmd, CurrentStatus |-> svc.state]

\* the Running status is sent, whatever the current status is
Interrogate_SendsRunning ==
  /\ svc.at = "loop"
  /\ svc' = [svc EXCEPT !.state = "Running", !.reported = "Running"]
  /\ UNCHANGED <<Programs, heap, Mu, clock, pc, locals, programsToClean, repo,
                 catalog, config, tasks, ghost>>

\* service_windows.go:95-96: status <- c.CurrentStatus
Interrogate ==
  /\ svc.at = "loop"
  /\ LET c == ChangeRequest("Interrogate") IN
       svc' = [svc EXCEPT !.state = c.CurrentStatus, !.reported = c.CurrentStatus]
  /\ UNCHANGED <<Programs, heap, Mu, clock, pc, locals, programsToClean, repo,
                 catalog, config, tasks, ghost>>

\* service_windows.go:120-121: any other request is logged
Unrecognized ==
  /\ svc.at = "loop"
  /\ UNCHANGED vars

\* service_windows.go:98-101: the StopPending status and closeService
Stop ==
  /\ svc.at = "loop"
  /\ svc' = [svc EXCEPT !.state = "StopPending", !.at = "cancel",
                        !.calls = Append(@, "closeService")]
  /\ tasks' = [tasks EXCEPT !.dbOpen = FALSE]
  /\ UNCHANGED <<Programs, heap, Mu, clock, pc, locals, programsToClean, repo,
                 catalog, config, ghost>>

\* cancel() is left out: the monitor and the heartbeats are stopped by
\* their own cancel functions, serviceCtx is not cancelled
Cancel_WithoutServiceCtx ==
  /\ svc.at = "cancel"
  /\ svc' = [svc EXCEPT !.at = "exit",
                        !.calls = @ \o <<"MonCancel", "WakaCancel">>]
  /\ tasks' = [tasks EXCEPT !.monitor = FALSE, !.heartbeat = FALSE]
  /\ UNCHANGED <<Programs, heap, Mu, clock, pc, locals, programsToClean, repo,
                 catalog, config, ghost>>

\* service_windows.go:102-105: MonCancel, WakaCancel, cancel, break loop
Cancel ==
  /\ svc.at = "cancel"
  /\ svc' = [svc EXCEPT !.at = "exit",
                        !.calls = @ \o <<"MonCancel", "WakaCancel", "cancel">>]
  /\ tasks' = [tasks EXCEPT !.monitor = FALSE, !.heartbeat = FALSE,
                            !.listener = FALSE, !.validator = FALSE,
                            !.cancelled = TRUE]
  /\ UNCHANGED <<Programs, heap, Mu, clock, pc, locals, programsToClean, repo,
                 catalog, config, ghost>>

\* service_windows.go:107-113: StopHeartbeats when WakaTime is enabled,
\* StopProcessMonitor
Pause ==
  /\ svc.at = "loop"
  /\ svc' = [svc EXCEPT !.state = "Paused"]
  /\ tasks' = [tasks EXCEPT !.heartbeat = IF config.WakaTime THEN FALSE ELSE @,
                            !.monitor = FALSE]
  /\ UNCHANGED <<Programs, heap, Mu, clock, pc, locals, programsToClean, repo,
                 catalog, config, ghost>>

\* service_windows.go:115-118: RefreshProcessMonitor
Continue ==
  /\ svc.at = "loop"
  /\ svc' = [svc EXCEPT !.state = "Running"]
  /\ tasks' = [tasks EXCEPT !.monitor = TRUE]
  /\ UNCHANGED <<Programs, heap, Mu, clock, pc, locals, programsToClean, repo,
                 catalog, config, ghost>>

Startup(oks) ==
  \/ GetAllPrograms(oks)
  \/ SeedLock
  \/ SeedProgram
  \/ StartTasks

\* ------------------------------------------------------------ Manage
\* sessions.go:280-283: s.prRepo.GetAllPrograms; on an error Manage returns
\* the message and the error
ManageGetAllPrograms(oks) ==
  /\ svc.os = "linux"
  /\ svc.at = "read"
  /\ \E ok \in oks :
       IF ok
       THEN svc' = [svc EXCEPT !.at = "seed",
                               !.seed = IF "editor" \in catalog
                                        THEN <<"editor", "browser">> ELSE <<>>,
                               !.calls = Append(@, "GetAllPrograms")]
       ELSE svc' = [svc EXCEPT !.state = "ERROR: Failed to get programs",
                               !.at = "exit", !.exit = 1,
                               !.calls = Append(@, "GetAllPrograms")]
  /\ UNCHANGED <<Programs, heap, Mu, clock, pc, locals, programsToClean, repo,
                 catalog, config, tasks, ghost>>

\* sessions.go:286-298: one iteration; EnsureProgram is called with sm.Mu
\* as it is
ManageSeedProgram ==
  /\ svc.os = "linux"
  /\ svc.at = "seed"
  /\ svc.seed # <<>>
  /\ Programs' = EnsurePrograms(Programs, Head(svc.seed))
  /\ heap' = EnsureHeap(Programs, heap, Head(svc.seed),
                        CatalogCategory(Head(svc.seed)), CatalogProject(Head(svc.seed)))
  /\ svc' = [svc EXCEPT !.seed = Tail(@), !.calls = Append(@, "EnsureProgram")]
  /\ UNCHANGED <<Mu, clock, pc, locals, programsToClean, repo, catalog, config,
                 tasks, ghost>>

\* sessions.go:300-310, the calls that start the tasks: the monitor when
\* there are programs, the heartbeats when an integration is enabled, the
\* listener, the validator
ManageStarts(programs, cfg) ==
  (IF programs # {} THEN <<"StartMonitor">> ELSE <<>>)
    \o (IF cfg.WakaTime \/ cfg.Wakapi THEN <<"StartHeartbeats">> ELSE <<>>)
    \o <<"Listen", "startSessionValidator">>

\* sessions.go:284 and :300-312: the tasks are started on serviceCtx, and
\* run unless it is done already; Manage waits for serviceCtx.Done()
ManageStartTasks ==
  /\ svc.os = "linux"
  /\ svc.at = "seed"
  /\ svc.seed = <<>>
  /\ tasks' = [tasks EXCEPT
                 !.monitor = (catalog # {}) /\ ~tasks.cancelled,
                 !.heartbeat = (config.WakaTime \/ config.Wakapi) /\ ~tasks.cancelled,
                 !.listener = ~tasks.cancelled,
                 !.validator = ~tasks.cancelled]
  /\ svc' = [svc EXCEPT !.at = "wait", !.calls = @ \o ManageStarts(catalog, config)]
  /\ UNCHANGED <<Programs, heap, Mu, clock, pc, locals, programsToClean, repo,
                 catalog, config, ghost>>

\* sessions.go:277: os.Interrupt or SIGTERM arrives and signal.NotifyContext
\* cancels serviceCtx, which every task was started on
Signal ==
  /\ svc.os = "linux"
  /\ svc.at \in {"read", "seed", "wait"}
  /\ ~tasks.cancelled
  /\ tasks' = [tasks EXCEPT !.monitor = FALSE, !.heartbeat = FALSE,
                            !.listener = FALSE, !.validator = FALSE,
                            !.cancelled = TRUE]
  /\ svc' = [svc EXCEPT !.calls = Append(@, "cancel")]
  /\ UNCHANGED <<Programs, heap, Mu, clock, pc, locals, programsToClean, repo,
                 catalog, config, ghost>>

\* sessions.go:312-317: serviceCtx is done, closeService, return
ManageClose ==
  /\ svc.os = "linux"
  /\ svc.at = "wait"
  /\ tasks.cancelled
  /\ svc' = [svc EXCEPT !.state = "INFO: Daemon stopped.", !.at = "exit",
                        !.calls = Append(@, "closeService")]
  /\ tasks' = [tasks EXCEPT !.dbOpen = FALSE]
  /\ UNCHANGED <<Programs, heap, Mu, clock, pc, locals, programsToClean, repo,
                 catalog, config, ghost>>

\* the calls of the seeding loop for k programs, one iteration after the other
RECURSIVE SeedCalls(_, _)
SeedCalls(iteration, k) ==
  IF k = 0 THEN <<>> ELSE iteration \o SeedCalls(iteration, k - 1)

\* service_windows.go:50-105: the calls of Execute from its start to a Stop
\* request, in their order
ExecuteCalls(programs, cfg) ==
  <<"GetAllPrograms">>
    \o SeedCalls(<<"Mu.Lock", "EnsureProgram", "Mu.Unlock">>, Cardinality(programs))
    \o ExecuteStarts(programs, cfg)
    \o <<"closeService", "MonCancel", "WakaCancel", "cancel">>

\* sessions.go:277-317: the calls of Manage from its start to its return,
\* the signal that cancels serviceCtx arriving while Manage waits for it
ManageCalls(programs, cfg) ==
  <<"GetAllPrograms">>
    \o SeedCalls(<<"EnsureProgram">>, Cardinality(programs))
    \o ManageStarts(programs, cfg)
    \o <<"cancel", "closeService">>

Manage(oks) ==
  \/ ManageGetAllPrograms(oks)
  \/ ManageSeedProgram
  \/ ManageStartTasks
  \/ Signal
  \/ ManageClose

\* ------------------------------------------------------------ specification
Notify(W) ==
  \E w \in W, n \in Lowercase, pid \in Pids :
    \/ CreateSession(w, n, pid)
    \/ EndSession(w, n, pid)

WorkerStep(W, oks) ==
  \E w \in W :
    \/ CreateSessionLen(w)
    \/ CreateSessionDb(w, oks)
    \/ EndSessionLen(w)

MoveSessionToHistory(T, oks) ==
  \E th \in T :
    \/ GetActiveSession(th, oks)
    \/ AddToSessionHistory(th, oks)
    \/ UpdateLifetime(th, oks)
    \/ RemoveActiveSession(th, oks)
    \/ DeleteEntry(th)

ValidateActiveSessions ==
  \/ ValidateLock
  \/ ValidateScan

\* The calls run one after the other: a call begins when every thread is idle
Quiet == \A th \in Threads : pc[th] = "idle"

\* The monitor delivers its notifications one at a time while the validator
\* sweeps; every repository call succeeds
Next ==
  \/ Tick
  \/ Startup({TRUE})
  \/ Notify(Monitor)
  \/ WorkerStep(Monitor, {TRUE})
  \/ MoveSessionToHistory(Monitor \cup {Sweeper}, {TRUE})
  \/ ValidateActiveSessions

Spec == Init /\ [][Next]_vars

\* Notifications and sweeps one after the other; a repository call may fail
NextSeq ==
  \/ Tick
  \/ Startup(BOOLEAN)
  \/ Quiet /\ Notify(Monitor)
  \/ WorkerStep(Monitor, BOOLEAN)
  \/ MoveSessionToHistory(Monitor \cup {Sweeper}, BOOLEAN)
  \/ Quiet /\ ValidateLock
  \/ ValidateScan

SpecSeq == Init /\ [][NextSeq]_vars

\* Two notifiers and no validator: a call for a program begins while no call
\* for the same program is running; a repository call may fail
Apart(w, n) == \A o \in Workers \ {w} : pc[o] = "idle" \/ arg[o].name # n

NotifyApart ==
  \E w \in Workers, n \in Lowercase, pid \in Pids :
    /\ Apart(w, n)
    /\ \/ CreateSession(w, n, pid)
       \/ EndSession(w, n, pid)

NextPar ==
  \/ Tick
  \/ Startup(BOOLEAN)
  \/ NotifyApart
  \/ WorkerStep(Workers, BOOLEAN)
  \/ MoveSessionToHistory(Workers, BOOLEAN)

SpecPar == Init /\ [][NextPar]_vars

\* Two notifiers whose calls run concurrently, for the same program too, and
\* no validator; every repository call succeeds
NextConc ==
  \/ Tick
  \/ Startup({TRUE})
  \/ Notify(Workers)
  \/ WorkerStep(Workers, {TRUE})
  \/ MoveSessionToHistory(Workers, {TRUE})

SpecConc == Init /\ [][NextConc]_vars

\* The monitor reports a process name in the case the OS gives it: one
\* notifier, its calls one after the other, no validator, every repository
\* call succeeds
NotifyAnyCase ==
  \E w \in Monitor, n \in Names, pid \in Pids :
    \/ CreateSession(w, n, pid)
    \/ EndSession(w, n, pid)

NextCase ==
  \/ Tick
  \/ Startup({TRUE})
  \/ Quiet /\ NotifyAnyCase
  \/ WorkerStep(Monitor, {TRUE})
  \/ MoveSessionToHistory(Monitor, {TRUE})

SpecCase == Init /\ [][NextCase]_vars

\* service_windows.go:91-123: one request of the service control manager
ControlRequest ==
  \/ Interrogate
  \/ Stop
  \/ Cancel
  \/ Pause
  \/ Continue
  \/ Unrecognized

\* The service under the control manager, with any catalog and any
\* configuration: the requests that act on the tasks, notifications and
\* sweeps one after the other, every repository call succeeds
NextSvc ==
  \/ Tick
  \/ Startup(BOOLEAN)
  \/ Stop
  \/ Cancel
  \/ Pause
  \/ Continue
  \/ Quiet /\ Notify(Monitor)
  \/ WorkerStep(Monitor, {TRUE})
  \/ MoveSessionToHistory(Monitor \cup {Sweeper}, {TRUE})
  \/ Quiet /\ ValidateLock
  \/ ValidateScan

SpecSvc == InitAny /\ [][NextSvc]_vars

\* The service with every program in the catalog, with and without the
\* Wakapi integration: Execute, which runs on a goroutine of its own, goes on
\* from closeService to the cancel calls (service_windows.go:101-105)
InitStop ==
  /\ InitManager
  /\ InitService("windows")
  /\ catalog = Lowercase
  /\ config \in [WakaTime : {FALSE}, Wakapi : BOOLEAN]

SpecStop == InitStop /\ [][NextSvc]_vars /\ WF_vars(Cancel)

\* The service under every request of the control manager, with every
\* program in the catalog and no integration enabled, the validator off
\* duty: notifications one after the other, every repository call succeeds
NextCtl ==
  \/ Tick
  \/ Startup({TRUE})
  \/ ControlRequest
  \/ Quiet /\ Notify(Monitor)
  \/ WorkerStep(Monitor, {TRUE})
  \/ MoveSessionToHistory(Monitor, {TRUE})

SpecCtl == Init /\ [][NextCtl]_vars

\* The calls of the session manager with every Lock as a step of its own:
\* the monitor delivers its notifications while the validator sweeps, and
\* each goroutine that holds sm.Mu is scheduled; every repository call
\* succeeds
NextLock ==
  \/ Startup({TRUE})
  \/ \E w \in Monitor, n \in Lowercase, pid \in Pids :
       \/ CreateSessionLock(w, n, pid)
       \/ EndSessionLock(w, n, pid)
  \/ \E w \in Monitor :
       \/ CreateSessionUnlock(w)
       \/ EndSessionUnlock(w)
  \/ WorkerStep(Monitor, {TRUE})
  \/ \E th \in Monitor \cup {Sweeper} :
       \/ GetActiveSession(th, {TRUE})
       \/ AddToSessionHistory(th, {TRUE})
       \/ UpdateLifetime(th, {TRUE})
       \/ RemoveActiveSession(th, {TRUE})
       \/ DeleteLock(th)
       \/ DeleteUnlock(th)
  \/ ValidateActiveSessions

SpecLock ==
  /\ Init
  /\ [][NextLock]_vars
  /\ WF_vars(SeedProgram)
  /\ WF_vars(\E w \in Monitor : CreateSessionUnlock(w) \/ EndSessionUnlock(w))
  /\ WF_vars(\E th \in Monitor \cup {Sweeper} : DeleteUnlock(th))
  /\ WF_vars(ValidateScan)

\* The session manager with a task that calls EnsureProgram between the
\* notifications, for any name and category, while the monitor delivers
\* its notifications one after the other; every repository call succeeds
NextEnsure ==
  \/ Tick
  \/ Startup({TRUE})
  \/ \E name \in Names, category \in Categories, project \in Projects :
       Quiet /\ EnsureProgram(name, category, project)
  \/ Quiet /\ Notify(Monitor)
  \/ WorkerStep(Monitor, {TRUE})
  \/ MoveSessionToHistory(Monitor, {TRUE})

SpecEnsure == Init /\ [][NextEnsure]_vars

\* The three builds: service_windows.go with sessions_windows.go, Manage with
\* sessions_linux.go, and the probe of sessions.go:206-220, which its
\* comment places on Windows
Builds == {"windows", "linux", "untagged"}

InitOs ==
  /\ InitManager
  /\ \E os \in Builds : InitService(os)
  /\ catalog \in {{}, Lowercase}
  /\ config = [WakaTime |-> FALSE, Wakapi |-> FALSE]

\* Each build from its start to its shutdown: notifications and sweeps one
\* after the other; the read of the catalog may fail, every other
\* repository call succeeds
NextOs ==
  \/ Tick
  \/ Startup(BOOLEAN)
  \/ Stop
  \/ Cancel
  \/ Manage(BOOLEAN)
  \/ Quiet /\ Notify(Monitor)
  \/ WorkerStep(Monitor, {TRUE})
  \/ MoveSessionToHistory(Monitor \cup {Sweeper}, {TRUE})
  \/ Quiet /\ ValidateLock
  \/ ValidateScan

SpecOs == InitOs /\ [][NextOs]_vars

\* The two bindings with every program in the catalog, from their start to
\* the return of the validator: a repository call of a sweep may fail, as
\* it does on a closed store or a context that is done
InitExit ==
  /\ InitManager
  /\ \E os \in {"windows", "linux"} : InitService(os)
  /\ catalog = Lowercase
  /\ config = [WakaTime |-> FALSE, Wakapi |-> FALSE]

NextExit ==
  \/ Tick
  \/ Startup({TRUE})
  \/ Stop
  \/ Cancel
  \/ Manage({TRUE})
  \/ Quiet /\ Notify(Monitor)
  \/ WorkerStep(Monitor, {TRUE})
  \/ MoveSessionToHistory(Monitor, {TRUE})
  \/ MoveSessionToHistory({Sweeper}, BOOLEAN)
  \/ Quiet /\ ValidateLock
  \/ ValidateScan
  \/ ValidatorReturn

\* The validator goroutine is scheduled: the step it is at is taken.  Of
\* the two cases of its select only the one of the ticker waits.
SpecExit ==
  /\ InitExit
  /\ [][NextExit]_vars
  /\ WF_vars(ValidateScan)
  /\ WF_vars(MoveSessionToHistory({Sweeper}, BOOLEAN))
  /\ WF_vars(ValidatorReturn)

TypeOK ==
  /\ Programs \in [Names -> Objs \cup {NULL}]
  /\ Mu \in {Free, Sweeper, Control} \cup Workers
  /\ clock \in 1..MaxTime
  /\ \A n \in Names : lifetime[n] >= 0

\* ------------------------------------------------------------ helpers of the claims
Range(q) == {q[i] : i \in 1..Len(q)}
InCommit(th) == pc[th] \in {"mv_get", "mv_add", "mv_upd", "mv_rm"}
Stepped(th) == pc'[th] # pc[th]

\* ------------------------------------------------------------ claims
\* C1: once every CreateSession / EndSession call has returned, the live-PID
\* set of each program is the set of PIDs created and not ended since (a
\* PID that is created again after its end counts as created), an absent entry
\* counting as the empty set, whatever the calls for the other program were.
C1_LiveSetIsStartedMinusStopped ==
  Quiet => \A n \in Names : LivePIDs(n) = expect[n]

\* after two CreateSession calls and the EndSession of the first, the first
\* program is committed and gone and the second holds its PID
C1_Witness ==
  /\ Quiet
  /\ created = 2
  /\ Programs["editor"] = NULL
  /\ Len(history) = 1
  /\ LivePIDs("browser") = {2}
  /\ expect["browser"] = {2}

\* what C2 asks of every step
C2_Step ==
  \A n \in Names :
    /\ (LivePIDs(n) # {} /\ Programs'[n] = Programs[n])
         => heap'[Programs'[n]].StartAt = heap[Programs[n]].StartAt
    /\ (LivePIDs(n) = {} /\ Programs'[n] # NULL /\ heap'[Programs'[n]].PIDs # {})
         => /\ heap'[Programs'[n]].StartAt = clock
            /\ created' = created + 1

\* C2: StartAt is written at the CreateSession that takes the live-PID set
\* from empty to non-empty, and no step changes it while the set is
\* non-empty and the entry stays in the map.
C2_StartAtWrittenOnce == [][C2_Step]_vars

\* a second PID was added to a running session after the clock moved
C2_Witness ==
  \E n \in Names :
    /\ Cardinality(LivePIDs(n)) = 2
    /\ Entry(n).StartAt < Entry(n).LastSeen

\* what C3 asks of every step
C3_Step ==
  \A th \in Threads :
    (pc[th] = "mv_get" /\ active[arg[th].name] = NoRow /\ Stepped(th))
      => /\ pc'[th] = "del"
         /\ history' = history
         /\ lifetime' = lifetime
         /\ active' = active

\* C3: a commit that finds no ActiveSession row of the program returns at
\* once: it appends no history row, adds nothing to a lifetime, and the
\* caller goes on to delete the map entry.
C3_CommitWithoutRowIsNoOp == [][C3_Step]_vars

\* the validator and EndSession have both committed the same program, and
\* there is one history row
C3_Witness ==
  /\ pc[Sweeper] = "del"
  /\ pc["w1"] = "del"
  /\ arg[Sweeper].name = arg["w1"].name
  /\ Len(history) = 1
  /\ active[arg["w1"].name] = NoRow

\* what C4 asks of every step
C4_Step ==
  \A w \in Workers :
    LET n == arg[w].name IN
    /\ (pc[w] = "es_len" /\ Stepped(w) /\ heap[tref[w]].PIDs = {})
         => pc'[w] = "mv_get"
    /\ (pc[w] = "mv_get" /\ Stepped(w) /\ active[n] # NoRow)
         => /\ pc'[w] = "mv_add"
            /\ startTime'[w] = active[n]
            /\ endTime'[w] = clock
            /\ duration'[w] = (clock - active[n]) \div TicksPerSecond
            /\ history' = history
    /\ (pc[w] = "mv_add" /\ Stepped(w))
         => /\ pc'[w] = "mv_upd"
            /\ history' = Append(history,
                 [ProgramName |-> n, StartTime |-> startTime[w],
                  EndTime |-> endTime[w], DurationSeconds |-> duration[w]])
            /\ duration'[w] = duration[w]
    /\ (pc[w] = "mv_upd" /\ Stepped(w))
         => /\ pc'[w] = "mv_rm"
            /\ lifetime' = [lifetime EXCEPT ![n] = @ + duration[w]]
            /\ history' = history
    /\ (pc[w] = "mv_rm" /\ Stepped(w))
         => /\ pc'[w] = "del"
            /\ active'[n] = NoRow
            /\ history' = history
            /\ lifetime' = lifetime
    /\ (pc[w] = "del" /\ Stepped(w))
         => /\ pc'[w] = "idle"
            /\ Programs'[n] = NULL
            /\ history' = history
            /\ lifetime' = lifetime

\* C4: when EndSession has removed the last live PID and the program has an
\* ActiveSession row, the commit appends one history row with the start of
\* the row, the time of the commit as its end and their difference in
\* whole seconds as its duration, adds that duration to the lifetime of the
\* program, removes the ActiveSession row, and the map entry is deleted
\* (every repository call succeeding).
C4_EndSessionCommits == [][C4_Step]_vars

\* EndSession has committed a session of one second and is about to delete
\* the entry; the validator found nothing to clean
C4_Witness ==
  /\ pc["w1"] = "del"
  /\ pc[Sweeper] = "idle"
  /\ created = 1
  /\ Programs[arg["w1"].name] # NULL
  /\ Len(history) = 1
  /\ history[1].ProgramName = arg["w1"].name
  /\ history[1].DurationSeconds = 1
  /\ lifetime[arg["w1"].name] = 1
  /\ active[arg["w1"].name] = NoRow

\* what C5 asks of every step
C5_Step ==
  \A n \in Names :
    /\ \A th \in Threads :
         (pc[th] = "del" /\ arg[th].name = n /\ Stepped(th)) => Programs'[n] = NULL
    /\ (Programs[n] = NULL /\ Programs'[n] # NULL)
         => \/ /\ created' = created + 1
               /\ Cardinality(heap'[Programs'[n]].PIDs) = 1
               /\ heap'[Programs'[n]].StartAt = clock
            \/ /\ svc.at \in {"seed", "ensure"}
               /\ heap'[Programs'[n]].PIDs = {}
               /\ heap'[Programs'[n]].StartAt = ZeroTime

\* C5: the call that commits a session ends with the deletion of the map
\* entry of the program, and an absent entry comes back only by
\* CreateSession, as a fresh entry with the new PID alone and StartAt now,
\* or by EnsureProgram, with no PID and no StartAt.
C5_EntryAbsentAfterCommit == [][C5_Step]_vars

\* a second session of a program whose first session is in the history
C5_Witness ==
  /\ created = 2
  /\ Len(history) = 1
  /\ Quiet
  /\ Cardinality(LivePIDs(history[1].ProgramName)) = 1
  /\ Entry(history[1].ProgramName).StartAt > history[1].StartTime
  /\ Entry(history[1].ProgramName).StartAt >= history[1].EndTime

\* what C6 asks of every state
C6_Inv ==
  \A n \in Names :
    probed[n] = "gone"
      => \/ InCommit(Sweeper) /\ arg[Sweeper].name = n
         \/ pc[Sweeper] = "del" /\ arg[Sweeper].name = n
         \/ pc[Sweeper] # "idle" /\ n \in Range(programsToClean)

\* what C6 asks of every step
C6_Step ==
  /\ (pc[Sweeper] = "mv_get" /\ Stepped(Sweeper) /\ active[arg[Sweeper].name] # NoRow)
       => pc'[Sweeper] = "mv_add"
  /\ (pc[Sweeper] = "mv_add" /\ Stepped(Sweeper))
       => /\ Len(history') = Len(history) + 1
          /\ history'[Len(history')].ProgramName = arg[Sweeper].name
  /\ (pc[Sweeper] = "del" /\ Stepped(Sweeper)) => Programs'[arg[Sweeper].name] = NULL
  /\ (arg'[Sweeper] # arg[Sweeper] /\ arg'[Sweeper].name # "") => pc'[Sweeper] = "mv_get"

\* C6: a program whose live PIDs all failed the probe of a sweep is
\* committed by that sweep (MoveSessionToHistory is called for it) and its
\* map entry is deleted before the sweep returns.
C6_SweepCommitsGone == []C6_Inv /\ [][C6_Step]_vars

\* the validator has committed a program the monitor has sent no stop for
C6_Witness ==
  /\ pc[Sweeper] = "del"
  /\ probed[arg[Sweeper].name] = "gone"
  /\ pc["w1"] = "idle"
  /\ created = 1
  /\ LivePIDs(arg[Sweeper].name) # {}
  /\ Len(history) = 1

\* what C7 asks of every state
C7_Inv ==
  \A n \in Names :
    probed[n] = "alive"
      => /\ arg[Sweeper].name # n
         /\ n \notin Range(programsToClean)

\* what C7 asks of every step
C7_Step ==
  \A n \in Names :
    (probed[n] = "alive" /\ Stepped(Sweeper))
      => /\ Programs'[n] = Programs[n]
         /\ active'[n] = active[n]
         /\ lifetime'[n] = lifetime[n]
         /\ history' # history => history'[Len(history')].ProgramName # n

\* C7: a program of which some live PID passed the probe of a sweep is not
\* committed and not removed from the map by that sweep, whatever
\* CreateSession and EndSession do to it meanwhile.
C7_SweepSparesAlive == []C7_Inv /\ [][C7_Step]_vars

\* the sweep has committed one program while a PID of the other passed
C7_Witness ==
  \E n \in Names :
    /\ probed[n] = "alive"
    /\ LivePIDs(n) # {}
    /\ pc[Sweeper] = "del"
    /\ Len(history) = 1
    /\ history[1].ProgramName = arg[Sweeper].name

\* C8: no session has two history rows, whoever commits it.
C8_OneRowPerSession ==
  \A i, j \in 1..Len(sid.hist) : i # j => sid.hist[i] # sid.hist[j]

\* what C9 asks of every step
C9_Step ==
  (/\ svc.state = "Paused"
   /\ svc'.state = "Paused"
   /\ \A w \in Workers : pc[w] = "idle")
    => /\ history' = history
       /\ \A n \in Names :
            /\ Programs[n] # NULL => Programs'[n] # NULL
            /\ (Programs[n] # NULL /\ Programs'[n] # NULL)
                 => heap'[Programs'[n]] = heap[Programs[n]]

\* C9: while the service stays Paused, no live-PID set, StartAt or LastSeen
\* changes, no map entry is removed and no history row is written (the
\* notifications that were being handled when the Pause came aside).
C9_PauseFreezesSessions == [][C9_Step]_vars

\* what C10 asks of every step
C10_Step ==
  \A th \in Threads :
    /\ (pc[th] = "mv_add" /\ Stepped(th)) => pc'[th] = "mv_upd"
    /\ (pc[th] = "mv_upd" /\ Stepped(th)) => pc'[th] = "mv_rm"

\* C10: in a commit the lifetime update is attempted after the append to the
\* history and the removal of the ActiveSession row after the lifetime
\* update, whether or not the call before failed.
C10_WritesIndependent == [][C10_Step]_vars

\* what C11 asks of every step
C11_Step ==
  /\ (pc[Sweeper] = "vs_scan" /\ Stepped(Sweeper)) => Mu # Sweeper
  /\ (InCommit(Sweeper) /\ Stepped(Sweeper)) => Mu # Sweeper

\* C11: the validator holds sm.Mu neither in the step that probes the PIDs
\* nor in a step of a commit.
C11_SweepProbesUnlocked == [][C11_Step]_vars

\* the positions at which a thread is about to call a repository
RepositoryCalls == {"cs_db", "mv_get", "mv_add", "mv_upd", "mv_rm"}

\* C12: a thread that is about to call CreateActiveSession, GetActiveSession,
\* AddToSessionHistory, UpdateLifetime or RemoveActiveSession does not hold
\* sm.Mu.
C12_NoRepositoryCallUnderLock ==
  \A th \in Threads : pc[th] \in RepositoryCalls => Mu # th

\* the validator and the notifier are both about to call a repository
C12_Witness ==
  /\ pc[Sweeper] = "mv_upd"
  /\ pc["w1"] = "cs_db"
  /\ Mu = Free

\* C13: once every call has returned, a program has an ActiveSession row
\* exactly when its live-PID set is not empty, and the row starts at StartAt.
C13_RowMirrorsLiveSet ==
  Quiet => \A n \in Names :
             /\ active[n] # NoRow <=> LivePIDs(n) # {}
             /\ active[n] # NoRow => active[n] = Entry(n).StartAt

\* what C14 asks of every step
C14_Step ==
  \A w \in Workers :
    (pc[w] = "cs_db" /\ Stepped(w)) => active[arg[w].name] = NoRow

\* C14: CreateActiveSession is called only for a program that has no
\* ActiveSession row (the map, a function of the name, holds one entry for a
\* name by its type).
C14_OneOpenSession == [][C14_Step]_vars

\* C15: while the service runs, every program of the catalog, which
\* EnsureProgram has configured at startup, has its entry in the map.
C15_ConfiguredEntryStays ==
  svc.state \in {"Running", "Paused"} => \A n \in catalog : Programs[n] # NULL

\* C16: two names that differ only in the case of their letters never have
\* an entry each.
C16_CaseInsensitiveKey ==
  \A a, b \in Names :
    (a # b /\ ToLower(a) = ToLower(b)) => (Programs[a] = NULL \/ Programs[b] = NULL)

\* what C17 asks of every step
C17_Step ==
  (created' = created + 1 /\ sid'.noop = "CreateSession")
    => /\ pc' = pc
       /\ Programs' = Programs
       /\ \A o \in Objs : /\ heap'[o].PIDs = heap[o].PIDs
                          /\ heap'[o].StartAt = heap[o].StartAt
       /\ \E o \in Objs : /\ heap'[o].LastSeen = clock
                          /\ \A q \in Objs \ {o} : heap'[q] = heap[q]
       /\ active' = active
       /\ history' = history
       /\ lifetime' = lifetime

\* C17: a CreateSession with a PID the program already has refreshes
\* LastSeen and nothing else: the PID sets, StartAt and the repositories stay
\* as they are and the call returns without going on to CreateActiveSession.
C17_DuplicateCreateIsIdempotent == [][C17_Step]_vars

\* the first PID of a program was reported a second time, after the clock
\* moved: one ActiveSession row, with the start of the first report
C17_Witness ==
  /\ Quiet
  /\ sid.noop = "CreateSession"
  /\ created = 2
  /\ \E n \in Names :
       /\ Cardinality(LivePIDs(n)) = 1
       /\ Entry(n).LastSeen > Entry(n).StartAt
       /\ active[n] = Entry(n).StartAt

\* what C18 asks of every step
C18_Step ==
  \A w \in Workers :
    /\ (pc[w] = "idle" /\ pc'[w] = "es_len" /\ heap'[tref'[w]].PIDs # {})
         => /\ Programs' = Programs
            /\ heap'[tref'[w]].StartAt = heap[tref'[w]].StartAt
            /\ active' = active /\ history' = history /\ lifetime' = lifetime
    /\ (pc[w] = "es_len" /\ Stepped(w) /\ heap[tref[w]].PIDs # {})
         => /\ pc'[w] = "idle"
            /\ Programs' = Programs
            /\ \A n \in Names : Programs[n] # NULL => heap'[Programs[n]] = heap[Programs[n]]
            /\ active' = active /\ history' = history /\ lifetime' = lifetime

\* C18: an EndSession after which the program still has a live PID leaves
\* the map entry and StartAt as they are, calls no repository, and returns
\* without a commit.
C18_EndSessionKeepsOpenSession == [][C18_Step]_vars

\* two PIDs were reported for a program and the first has ended: the second
\* is live, the ActiveSession row is the one of the first report, and there
\* is no history row
C18_Witness ==
  /\ Quiet
  /\ created = 2
  /\ sid.noop = ""
  /\ history = <<>>
  /\ \E n \in Names :
       /\ LivePIDs(n) = {2}
       /\ Entry(n).LastSeen > Entry(n).StartAt
       /\ active[n] = Entry(n).StartAt
       /\ expect[n] = {2}

\* what C19 asks of every step
C19_Step ==
  \A w \in Workers :
    (pc[w] = "cs_db" /\ Stepped(w) /\ active'[arg[w].name] = NoRow)
      => /\ Programs'[arg[w].name] # NULL
         /\ arg[w].pid \in heap'[Programs'[arg[w].name]].PIDs
         /\ heap'[Programs'[arg[w].name]].StartAt = tnow[w]
         /\ tnow[w] # ZeroTime

\* C19: when CreateActiveSession fails for the first PID of a program, the
\* entry keeps the PID in its live set and the StartAt of the call.
C19_FailedWriteKeepsSessionOpen == [][C19_Step]_vars

\* the first PID of a program is live and started, and its ActiveSession row
\* was not written
C19_Witness ==
  /\ Quiet
  /\ created = 1
  /\ \E n \in Names :
       /\ LivePIDs(n) # {}
       /\ Entry(n).StartAt # ZeroTime
       /\ active[n] = NoRow

\* what C20 asks of every step
C20_Step ==
  (sid'.noop = "EndSession" /\ sid.noop # "EndSession")
    => /\ pc' = pc
       /\ Programs' = Programs
       /\ \A o \in Objs : /\ heap'[o].PIDs = heap[o].PIDs
                          /\ heap'[o].StartAt = heap[o].StartAt
       /\ active' = active
       /\ history' = history
       /\ lifetime' = lifetime

\* C20: an EndSession for a program that has no entry, or for a PID its
\* entry does not hold, changes neither the map nor a PID set nor a StartAt,
\* calls no repository and returns.
C20_EndSessionOfUnknownIsNoOp == [][C20_Step]_vars

\* a session is open and the last call was an EndSession that found nothing
\* to end
C20_Witness ==
  /\ Quiet
  /\ sid.noop = "EndSession"
  /\ created = 1
  /\ history = <<>>
  /\ \E n \in Names :
       /\ LivePIDs(n) = {1}
       /\ active[n] = Entry(n).StartAt

\* what C21 asks of every step
C21_Step ==
  \A w \in Workers, n \in Names, pid \in Pids :
    /\ (CreateSession(w, n, pid) /\ Programs[n] # NULL)
         => heap'[Programs[n]].LastSeen = clock
    /\ (EndSession(w, n, pid) /\ Programs[n] # NULL)
         => heap'[Programs[n]].LastSeen = clock

\* C21: every CreateSession and every EndSession call for a program that has
\* an entry in the map leaves the LastSeen of that entry at the time of the
\* call.
C21_LastSeenOnEveryNotification == [][C21_Step]_vars

\* the sum of DurationSeconds over the first k history rows of a program
RECURSIVE SumDurations(_, _)
SumDurations(n, k) ==
  IF k = 0 THEN 0
  ELSE SumDurations(n, k - 1)
         + (IF history[k].ProgramName = n THEN history[k].DurationSeconds ELSE 0)

\* the durations written to the history by commits that have not yet called
\* UpdateLifetime
RECURSIVE PendingDurations(_, _)
PendingDurations(n, T) ==
  IF T = {} THEN 0
  ELSE LET th == CHOOSE x \in T : TRUE IN
       PendingDurations(n, T \ {th})
         + (IF pc[th] = "mv_upd" /\ arg[th].name = n THEN duration[th] ELSE 0)

\* what C22 asks of every state
C22_Inv ==
  \A n \in Names :
    lifetime[n] + PendingDurations(n, Threads) = SumDurations(n, Len(history))

\* what C22 asks of every step
C22_Step ==
  \A n \in Names :
    /\ lifetime'[n] >= lifetime[n]
    /\ \A th \in Threads :
         (pc[th] = "mv_upd" /\ Stepped(th) /\ arg[th].name = n)
           => lifetime'[n] = lifetime[n] + duration[th]

\* C22: the lifetime of a program never decreases, each commit adds to it
\* the duration it wrote to the history and, every repository call
\* succeeding, the lifetime is the sum of DurationSeconds
\* over the history rows of the program (the rows of the commits that are
\* between the append and the update aside).
C22_LifetimeIsSumOfHistory == []C22_Inv /\ [][C22_Step]_vars

\* two sessions of a program are in the history, one of a second and one of
\* less, and the lifetime of the program is one second
C22_Witness ==
  /\ Quiet
  /\ Len(history) = 2
  /\ history[1].ProgramName = history[2].ProgramName
  /\ history[1].DurationSeconds = 1
  /\ history[2].DurationSeconds = 0
  /\ lifetime[history[1].ProgramName] = 1

\* what C23 asks of every step: the step that calls EnsureProgram for the
\* next program of the catalog is taken by a caller that holds sm.Mu
C23_Step ==
  Len(svc'.seed) < Len(svc.seed) => Mu = Control

\* C23: in the seeding of either binding, EnsureProgram is called only
\* while the caller holds sm.Mu.
C23_EnsureProgramUnderLock == [][C23_Step]_vars

\* none of the four tasks is running
NoneStarted(t) == ~t.monitor /\ ~t.heartbeat /\ ~t.listener /\ ~t.validator

\* what C24 asks of every state
C24_Inv ==
  svc.exit # 0
    => /\ svc.at = "exit"
       /\ svc.state \in {"Stopped", "ERROR: Failed to get programs"}
       /\ NoneStarted(tasks)

\* what C24 asks of every step
C24_Step ==
  /\ GetAllPrograms({FALSE})
       => /\ svc'.state = "Stopped"
          /\ svc'.exit # 0
          /\ svc'.at = "exit"
          /\ NoneStarted(tasks')
  /\ ManageGetAllPrograms({FALSE})
       => /\ svc'.state = "ERROR: Failed to get programs"
          /\ svc'.exit # 0
          /\ svc'.at = "exit"
          /\ NoneStarted(tasks')
  /\ svc.exit # 0 => (svc' = svc /\ tasks' = tasks)

\* C24: when the read of the catalog fails at startup, Execute reports
\* Stopped and returns a non-zero exit code, Manage returns an error, and
\* from then on the service is never Running and no monitor, heartbeat,
\* listener or validator is started.
C24_FailedReadNeverRuns == []C24_Inv /\ [][C24_Step]_vars

\* Execute has returned after the read failed
C24_Witness ==
  /\ svc.os = "windows"
  /\ svc.state = "Stopped"
  /\ svc.exit = 1
  /\ svc.at = "exit"
  /\ svc.calls = <<"GetAllPrograms">>
  /\ NoneStarted(tasks)
  /\ clock = MaxTime

\* what C25 asks of every state
C25_Inv ==
  svc.at = "exit" /\ svc.state = "StopPending"
    => /\ tasks.cancelled
       /\ NoneStarted(tasks)

\* what C25 asks of every step
C25_Step ==
  /\ (svc.at = "loop" /\ svc'.state = "StopPending")
       => /\ svc.state \in {"Running", "Paused"}
          /\ svc'.at = "cancel"
  /\ (svc.at = "cancel" /\ svc' # svc)
       => /\ svc'.at = "exit"
          /\ tasks'.cancelled
          /\ NoneStarted(tasks')
  /\ svc.at \in {"cancel", "exit"}
       => /\ svc'.state = svc.state
          /\ svc'.at \in {svc.at, "exit"}
          /\ tasks' # tasks => svc.at = "cancel"
  /\ tasks.cancelled
       => \A th \in Threads : pc[th] = "idle" => pc'[th] = "idle"

C26_Step ==
  /\ (tasks.dbOpen /\ ~tasks'.dbOpen) => tasks.cancelled
  /\ \A th \in Threads : (pc[th] = "idle" /\ pc'[th] # "idle") => tasks.dbOpen

\* C26: in either binding closeService is called after the tasks were
\* cancelled, and no notification and no sweep begins once the storage is
\* closed.
C26_CancelBeforeClose == [][C26_Step]_vars

\* C27: while the service is Paused neither the monitor nor the heartbeats
\* run, whichever integration had the heartbeats started.
C27_PauseStopsHeartbeats ==
  svc.state = "Paused" => (~tasks.monitor /\ ~tasks.heartbeat)

\* what C28 asks of every step
C28_Step ==
  (svc.at = "seed" /\ svc'.at \in {"loop", "wait"} /\ ~tasks.cancelled)
    => /\ tasks'.monitor
       /\ tasks'.validator
       /\ tasks'.listener
       /\ tasks'.heartbeat <=> (config.WakaTime \/ config.Wakapi)

\* C28: the step that ends a successful seeding starts the monitor, the
\* validator and the listener, whatever the catalog holds, and the
\* heartbeats exactly when WakaTime or Wakapi is enabled.
C28_StartsEveryTask == [][C28_Step]_vars

\* C29: when a binding has run from its start to its shutdown, the calls it
\* made are the calls the other binding makes for the same catalog and
\* configuration, in the same order.
C29_BindingsCallAlike ==
  (svc.at = "exit" /\ svc.exit = 0)
    => svc.calls = IF svc.os = "linux"
                   THEN ExecuteCalls(catalog, config)
                   ELSE ManageCalls(catalog, config)

\* the answers by which the OS says that there is no such process or that
\* the process has exited
ReportsGone == {"ESRCH", "ERROR_INVALID_PARAMETER", "EXITED",
                "FindProcess not found", "Signal finished"}

\* what C30 asks of every step
C30_Step ==
  \A answer \in [Pids -> OsAnswers] :
    ValidateScanWith(answer)
      => \A n \in Names : \A pid \in LivePIDs(n) :
           ~isProcessRunning(answer[pid]) => answer[pid] \in ReportsGone

\* C30: in every build, the probe of a sweep answers dead for a live PID
\* only when the OS reports that the process does not exist or has exited;
\* on any other answer of the OS it answers alive.
C30_ProbeBiasedToAlive == [][C30_Step]_vars

\* the status changes of the machine: Initializing to Running or, the read
\* of the catalog failing, to Stopped; Running to Paused and back; Running
\* or Paused to Stopping
Transitions ==
  {<<"StartPending", "Running">>, <<"StartPending", "Stopped">>,
   <<"Running", "Paused">>, <<"Paused", "Running">>,
   <<"Running", "StopPending">>, <<"Paused", "StopPending">>}

\* the status changes along the machine's transitions only
C31_Changes ==
  svc'.state # svc.state => <<svc.state, svc'.state>> \in Transitions

\* what C31 asks of every step
C31_Step ==
  /\ C31_Changes
  /\ (svc.state = "StartPending" /\ svc'.state = "Running")
       => (svc.at = "seed" /\ svc.seed = <<>>)
  /\ Pause => svc.state = "Running"
  /\ Continue => svc.state = "Paused"

\* C31: whatever requests the control manager sends, the status changes
\* along the transitions of the machine only, to Running only when the
\* seeding is over, the Pause case of Execute is run only while the service
\* is Running and the Continue case only while it is Paused.
C31_StateMachine == [][C31_Step]_vars

\* what C32 asks of every step
C32_Step ==
  /\ Interrogate
       => /\ svc'.state = svc.state
          /\ svc'.reported = svc.state
          /\ svc'.at = "loop"
          /\ UNCHANGED <<tasks, Programs, heap, repo>>
  /\ Unrecognized
       => /\ svc' = svc
          /\ svc'.at = "loop"
          /\ UNCHANGED <<tasks, Programs, heap, repo>>

\* C32: an Interrogate request and a request Execute does not know leave
\* the status, the running tasks, the map with its entries and the
\* repositories as they are and Execute in its loop; the status sent in
\* answer to Interrogate is the current one.
C32_InterrogateChangesNothing == [][C32_Step]_vars

\* the service was paused with a session open and has answered an
\* Interrogate with Paused
C32_Witness ==
  /\ svc.at = "loop"
  /\ svc.state = "Paused"
  /\ svc.reported = "Paused"
  /\ ~tasks.monitor
  /\ tasks.validator
  /\ \E n \in Names : LivePIDs(n) # {} /\ active[n] # NoRow

\* what C33 asks of every step
C33_Step ==
  \A name \in Names, category \in Categories, project \in Projects :
    EnsureProgram(name, category, project)
      => LET k == ToLower(name) IN
         /\ EnsurePrograms(Programs', name) = Programs'
         /\ EnsureHeap(Programs', heap', name, category, project) = heap'
         /\ Programs[k] # NULL
              => /\ Programs' = Programs
                 /\ heap'[Programs[k]].PIDs = heap[Programs[k]].PIDs
                 /\ heap'[Programs[k]].StartAt = heap[Programs[k]].StartAt
                 /\ heap'[Programs[k]].LastSeen = heap[Programs[k]].LastSeen
                 /\ heap'[Programs[k]].Category = category
                 /\ heap'[Programs[k]].Project = project
                 /\ \A o \in Objs \ {Programs[k]} : heap'[o] = heap[o]
         /\ Programs[k] = NULL
              => /\ Programs'[k] # NULL
                 /\ heap'[Programs'[k]] =
                      [ZeroTracked EXCEPT !.Category = category, !.Project = project]
                 /\ \A n \in Names \ {k} : Programs'[n] = Programs[n]
                 /\ \A o \in Objs \ {Programs'[k]} : heap'[o] = heap[o]

\* C33: a call of EnsureProgram leaves the map and the entries such that
\* the same call again changes nothing; for a program that is in the map
\* it changes the Category and the Project of its entry only, the live
\* PIDs, StartAt and LastSeen of the entry and every other entry staying
\* as they are; for a program that is not in the map it adds an entry with
\* no live PID under the lower-case name and changes no other entry.
C33_EnsureProgramIsIdempotentUpsert == [][C33_Step]_vars

\* the last EnsureProgram call found the entry of a program with an open
\* session and gave it a category that the catalog does not have for it
C33_Witness ==
  /\ Quiet
  /\ sid.ensured = "browser"
  /\ Programs["browser"] # NULL
  /\ Entry("browser").Category = "dev"
  /\ Entry("browser").Project = "timekeep"
  /\ Entry("browser").PIDs = {1, 2}
  /\ Entry("browser").StartAt = 1
  /\ Entry("browser").LastSeen = 2
  /\ active["browser"] = 1

\* the seeding loop of Execute or Manage has run to its end
Seeded ==
  /\ svc.exit = 0
  /\ svc.at # "read"
  /\ svc.at # "ensure"
  /\ svc.seed = <<>>

\* C34: when the seeding is over and no CreateSession call has been made,
\* the map has an entry of its own under the lower-case name of every
\* program of the catalog, with the category and the project of the
\* catalog and no live PID, and no other entry.
C34_SeededFromCatalog ==
  (Seeded /\ created = 0)
    => /\ \A n \in catalog :
            /\ Programs[ToLower(n)] # NULL
            /\ Entry(ToLower(n)) =
                 [ZeroTracked EXCEPT !.Category = CatalogCategory(n),
                                     !.Project = CatalogProject(n)]
            /\ Entry(ToLower(n)).PIDs = {}
       /\ \A k \in Names : Programs[k] # NULL => \E n \in catalog : ToLower(n) = k
       /\ \A k, l \in Names :
            (Programs[k] # NULL /\ Programs[k] = Programs[l]) => k = l

\* Manage has seeded the map from the catalog of two programs and started
\* the monitor, which has delivered nothing yet
C34_Witness ==
  /\ svc.os = "linux"
  /\ svc.at = "wait"
  /\ Seeded
  /\ created = 0
  /\ catalog = Lowercase
  /\ tasks.monitor
  /\ Entry("editor").Category = "dev"
  /\ Entry("editor").Project = "timekeep"
  /\ Entry("browser").Category = ""
  /\ Programs["editor"] # NULL
  /\ Programs["browser"] # NULL

\* startSessionValidator was called
ValidatorStarted ==
  \E i \in 1..Len(svc.calls) : svc.calls[i] = "startSessionValidator"

\* what C35 asks of every state
C35_Inv ==
  /\ pc[Sweeper] = "returned" => (tasks.cancelled /\ ValidatorStarted)
  /\ pc[Sweeper] = "returned" => Mu # Sweeper

\* what C35 asks of every step
C35_Step ==
  /\ (pc[Sweeper] = "idle" /\ pc'[Sweeper] = "vs_scan") => ~tasks.cancelled
  /\ (pc[Sweeper] = "idle" /\ pc'[Sweeper] = "returned") => tasks.cancelled
  /\ pc[Sweeper] = "returned" => pc'[Sweeper] = "returned"

C36_PidStaysUntilEnded ==
  \A n \in Names : expect[n] \subseteq LivePIDs(n)

\* the positions at which a thread is about to read len(t.PIDs)
LenReads == {"cs_len", "es_len"}

\* no thread writes a PID set that another thread is about to read
C37_NoRace ==
  \A w \in Workers :
    (pc[w] \in LenReads /\ ~Stepped(w))
      => heap'[tref[w]].PIDs = heap[tref[w]].PIDs

\* what C37 asks of every step
C37_Step ==
  /\ \A w \in Workers : (pc[w] \in LenReads /\ Stepped(w)) => Mu = w
  /\ (pc[Sweeper] = "vs_scan" /\ Stepped(Sweeper)) => Mu = Sweeper
  /\ C37_NoRace

\* C37: a thread that reads the size of a PID set, to decide on the
\* CreateActiveSession call or on the commit, and the validator that reads
\* the PID sets in its scan hold sm.Mu in that step, and no thread writes
\* a PID set between the write and the read of another thread.
C37_PidSetUnderLock == [][C37_Step]_vars

\* the positions between a Lock and its Unlock
HeldAt == {"cs_held", "es_held", "del_held", "vs_scan"}

\* what C38 asks of every state
C38_Inv ==
  /\ \A th \in Threads : Mu = th <=> pc[th] \in HeldAt
  /\ Mu = Control <=> svc.at = "ensure"

\* what C38 asks of every step
C38_Step ==
  /\ (Mu' # Mu /\ Mu' # Free) => Mu = Free
  /\ (Mu' # Mu /\ Mu # Free) => Mu' = Free
  /\ \A th \in Threads :
       /\ (Mu = th /\ Mu' # th) => Stepped(th)
       /\ (pc[th] \in HeldAt /\ Stepped(th)) => (pc'[th] \notin HeldAt /\ Mu' = Free)
       /\ (Mu # th /\ Mu' = th) => pc[th] \in {"idle", "del"}

\* C38: in CreateSession, EndSession, ValidateActiveSessions and the
\* seeding, sm.Mu is held by a thread exactly from a Lock to the Unlock
\* that follows it on the path taken: a call that has returned or that is
\* at its next Lock does not hold it, the lock is taken only when it is
\* free and given up only by its holder, and a lock that is held is
\* released.
C38_LockDiscipline ==
  /\ []C38_Inv
  /\ [][C38_Step]_vars
  /\ (Mu # Free) ~> (Mu = Free)

\* the notifier holds the lock for the delete that follows its commit while
\* the validator, with a commit of its own behind it, is at the Lock of
\* its delete
C38_Witness ==
  /\ Mu = "w1"
  /\ pc["w1"] = "del_held"
  /\ pc[Sweeper] = "del"
  /\ Len(history) = 2

\* what C39 asks of every state
C39_Inv ==
  \A n \in Names :
    lifetime[n] + PendingDurations(n, Threads) <= SumDurations(n, Len(history))

\* what C39 asks of every step
C39_Step ==
  /\ \A th \in Threads :
       /\ (pc[th] # "mv_add" /\ pc'[th] = "mv_add")
            => /\ pc[th] = "mv_get"
               /\ active[arg[th].name] # NoRow
       /\ (pc[th] # "mv_upd" /\ pc'[th] = "mv_upd")
            => /\ pc[th] = "mv_add"
               /\ Len(history') = Len(history) + 1
               /\ \A i \in 1..Len(history) : history'[i] = history[i]
               /\ history'[Len(history')].ProgramName = arg[th].name
               /\ history'[Len(history')].DurationSeconds = duration'[th]
  /\ \A n \in Names :
       lifetime'[n] # lifetime[n]
         => \E th \in Threads :
              /\ pc[th] = "mv_upd"
              /\ Stepped(th)
              /\ arg[th].name = n
              /\ lifetime'[n] = lifetime[n] + duration[th]

\* C39: with repository calls that may fail, a commit reaches UpdateLifetime
\* only from an AddToSessionHistory that has just appended its row, which
\* it reaches only from a GetActiveSession that found the row, the lifetime
\* changes only by that call, and no lifetime exceeds the sum of
\* DurationSeconds over the history rows of its program.
C39_LifetimeOnlyWithHistoryRow == []C39_Inv /\ [][C39_Step]_vars

\* a commit has written a row of one second and added it to the lifetime
C39_Witness ==
  \E th \in Threads :
    /\ pc[th] = "mv_rm"
    /\ Len(history) = 1
    /\ history[1].ProgramName = arg[th].name
    /\ history[1].DurationSeconds = 1
    /\ lifetime[arg[th].name] = 1

\* C40: two history rows of one program never have the same start time, and
\* the later of them starts no earlier than the earlier one ends.
C40_HistoryRowsDoNotOverlap ==
  \A i, j \in 1..Len(history) :
    (i < j /\ history[i].ProgramName = history[j].ProgramName)
      => /\ history[i].StartTime # history[j].StartTime
         /\ history[j].StartTime >= history[i].EndTime

====
